---- MODULE Spec2Model ----
(***************************************************************************)
(* Model of scripts/reporting/batch_resolve_locking_issues.py: main() and  *)
(* run_batch().  main() connects to the record store, exports its          *)
(* metadata and calls run_batch() once per label; run_batch() scrapes the  *)
(* matching tickets, asks for their verification and then, ticket by       *)
(* ticket and command by command, unlocks the form, re-runs the failing    *)
(* command and relocks the form, before it updates the ticket.             *)
(*                                                                         *)
(* Every call into a collaborator (batch_script_utils, commands, the       *)
(* scraped issue, the session) either returns or raises.  Neither          *)
(* run_batch() nor main() holds a try block around these calls (the only   *)
(* try is the one around connect_server), so an exception leaves both      *)
(* functions and ends the process: pc = "crashed".                         *)
(***************************************************************************)
EXTENDS Integers, Sequences, FiniteSets, TLC

\* ------------------------------------------------------------------ bounds
NumTickets == 2
MaxCmds == 2

Tickets == 1..NumTickets
CmdIdx == 1..MaxCmds
\* two of the label options of the --labels help text
Labels == {"update_visit_data", "import_mr_sessions"}
\* the label lists given to --labels: one label, one label twice, two labels
LabelLists ==
    {<<"update_visit_data">>,
     <<"update_visit_data", "update_visit_data">>,
     <<"update_visit_data", "import_mr_sessions">>}
\* the subject a ticket's body names: the first two tickets report the same one
StudyOf(t) == IF t <= 2 THEN "S001" ELSE "S002"
Forms == <<"clinical", "demographics", "youth_report", "mri_report">>

VARIABLES
    ticketLabel,      \* tracker: ticket number -> its label
    ticketCmds,       \* tracker: ticket number -> number of commands in its body
    parsed,           \* tracker: the tickets whose body has been read so far
    status,           \* tracker: ticket number -> "open" | "closed"
    comments,         \* tracker: ticket number -> comments posted by this process
    labels,           \* args.labels
    verbose,          \* args.verbose
    redcap_api,       \* main's redcap_api: "none" | "api"
    label_i,          \* position of main's loop in args.labels
    pc,               \* control position
    raisedIn,         \* the position an exception was raised in ("none": none)
    scraped_issues,   \* run_batch's scraped_issues
    i,                \* position of run_batch's loop in scraped_issues
    j,                \* position of the inner loop in get_commands()
    unlock_success,   \* unlock_command.success: "unset" | "success" | "failure"
    lock_success,     \* lock_command.success
    closed_issues,    \* run_batch's closed_issues (ticket numbers)
    commented_issues, \* run_batch's commented_issues
    printed,          \* what the last step printed
    unlocks,          \* history, per batch: ticket -> command -> unlock attempts
    reruns,           \* history, per batch: re-run attempts
    relocks,          \* history, per batch: relock attempts
    updates,          \* history, per batch: ticket -> calls of update()
    threeOk,          \* history: no finished command of the current issue had a failing phase
    verified,         \* history, per batch: what verify_scraped_issues returned
    batches           \* history: number of run_batch calls begun

vars == <<ticketLabel, ticketCmds, parsed, status, comments, labels, verbose,
          redcap_api, label_i, pc, raisedIn, scraped_issues, i, j, unlock_success,
          lock_success, closed_issues, commented_issues, printed, unlocks, reruns,
          relocks, updates, threeOk, verified, batches>>

tracker == <<ticketLabel, ticketCmds, parsed>>
args == <<labels, verbose>>
locals == <<unlock_success, lock_success>>
history == <<unlocks, reruns, relocks, updates, threeOk, verified>>

ZeroCounts == [t \in Tickets |-> [c \in CmdIdx |-> 0]]

\* ------------------------------------------------------- collaborators
\* The commands the body of ticket t holds, in order of appearance: one
\* subject, its first n forms.
BodyCommands(t, n) ==
    [c \in 1..n |-> [study_id |-> StudyOf(t), form |-> Forms[c], success |-> "unset"]]

ScrapedIssue(t, n) == [number |-> t, commands |-> BodyCommands(t, n), resolved |-> FALSE]

RECURSIVE IssuesFrom(_, _, _)
IssuesFrom(t, keep, bodies) ==
    IF t > NumTickets THEN <<>>
    ELSE (IF t \in keep THEN <<ScrapedIssue(t, bodies[t])>> ELSE <<>>)
             \o IssuesFrom(t + 1, keep, bodies)

\* mutant: the tracker query does not filter on the ticket's state
scrape_matching_issues_AnyState(label, bodies) ==
    IssuesFrom(1, {t \in Tickets : ticketLabel[t] = label}, bodies)

\* utils.scrape_matching_issues: the open tickets that carry the label, by
\* number, each parsed into its commands (--issue_numbers is left at its default,
\* None: no ticket is filtered out by number).
scrape_matching_issues(label, bodies) ==
    IssuesFrom(1, {t \in Tickets : ticketLabel[t] = label /\ status[t] = "open"}, bodies)

\* the tickets the query for `label` reads for the first time
FirstRead(label) == {t \in Tickets : ticketLabel[t] = label} \ parsed

\* scraped_issue.get_commands()
get_commands(issue) == issue.commands

\* The resolution rule of scraped_issue.update(): update() is called without
\* arguments, and of the three objects tested per command only `command` belongs
\* to the issue, so the rule reads the re-run results alone.
Resolves(commands) ==
    /\ Len(commands) > 0
    /\ \A k \in 1..Len(commands) : commands[k].success = "success"

Outcome(ok) == IF ok THEN "success" ELSE "failure"

\* ------------------------------------------------------------ run_batch
\* mutant: the result of the verification is not read
VerifyGate_Ignored(ok) == TRUE

\* line 34: the batch goes on iff verify_scraped_issues returns true
VerifyGate(ok) == ok

\* mutant: a failed re-run leaves the command without relocking
PhaseAfter_SkipRelockOnFailure(phase, ok) ==
    CASE phase = "unlock" -> "rerun"
      [] phase = "rerun" -> IF ok THEN "relock" ELSE "next"
      [] phase = "relock" -> "next"

\* mutant: the form is relocked before the command is re-run
PhaseAfter_RelockFirst(phase, ok) ==
    CASE phase = "unlock" -> "relock"
      [] phase = "relock" -> "rerun"
      [] phase = "rerun" -> "next"

\* mutant: lock_command.test() is never called
PhaseAfter_NoRelock(phase, ok) ==
    CASE phase = "unlock" -> "rerun"
      [] phase = "rerun" -> "next"
      [] phase = "relock" -> "next"

\* lines 52-54: the order of the three test() calls of one command; `ok` is the
\* outcome of `phase`, which no line between the calls reads
PhaseAfter(phase, ok) ==
    CASE phase = "unlock" -> "rerun"
      [] phase = "rerun" -> "relock"
      [] phase = "relock" -> "next"

\* mutant: command.test() leaves no result on the command
RecordRerun_NoState(issue, k, ok) == issue

\* line 53: command.test() records its outcome on the command
RecordRerun(issue, k, ok) ==
    [issue EXCEPT !.commands[k].success = Outcome(ok)]

\* mutant: the relock report is printed in verbose mode only
RelockReport_VerboseOnly(ok) == IF ok \/ ~verbose THEN <<>> ELSE <<"Errors relocking">>

\* line 55: the relock report is printed iff lock_command.success is false
RelockReport(ok) == IF ok THEN <<>> ELSE <<"Errors relocking">>

\* mutant: the two branches of line 59 are swapped
CountedClosed_Swapped(issue) == ~issue.resolved

\* mutant: every updated ticket is counted as closed
CountedClosed_Always(issue) == TRUE

\* line 59: the list the ticket number is appended to
CountedClosed(issue) == issue.resolved

\* mutant: the inner loop stops after the first command
AfterCommand_FirstOnly(issues, n, k) ==
    IF k < 1 /\ k < Len(get_commands(issues[n])) THEN "unlock" ELSE "update"

\* lines 40-45: where the loops go after command k of issue n (k = 0: the issue
\* is entered)
AfterCommand(issues, n, k) ==
    IF k < Len(get_commands(issues[n])) THEN "unlock" ELSE "update"

\* mutant: the outer loop stops after the first issue
AfterIssue_FirstOnly(issues, n) ==
    IF n < 1 /\ n < Len(issues) THEN "issue" ELSE "summary"

\* line 40: after issue n
AfterIssue(issues, n) == IF n < Len(issues) THEN "issue" ELSE "summary"

\* lines 103-104: after the batch of label number l
AfterBatch(l) == IF l < Len(labels) THEN "batch" ELSE "exit"

\* mutant: a failed verification ends main instead of the batch
AfterAbort_Exit(l) == "exit"

\* lines 35-36: "Aborting..." is followed by a plain return to main's loop
AfterAbort(l) == AfterBatch(l)

Raise(at) ==
    /\ pc' = "crashed"
    /\ raisedIn' = at

Init ==
    /\ ticketLabel \in [Tickets -> Labels]
    /\ ticketCmds = [t \in Tickets |-> 0]
    /\ parsed = {}
    /\ status = [t \in Tickets |-> "open"]
    /\ comments = [t \in Tickets |-> 0]
    /\ labels \in LabelLists
    /\ verbose \in BOOLEAN
    /\ redcap_api = "none"
    /\ label_i = 0
    /\ pc = "connect"
    /\ raisedIn = "none"
    /\ scraped_issues = <<>>
    /\ i = 0
    /\ j = 0
    /\ unlock_success = "unset"
    /\ lock_success = "unset"
    /\ closed_issues = <<>>
    /\ commented_issues = <<>>
    /\ printed = <<>>
    /\ unlocks = ZeroCounts
    /\ reruns = ZeroCounts
    /\ relocks = ZeroCounts
    /\ updates = [t \in Tickets |-> 0]
    /\ threeOk = TRUE
    /\ verified = "pending"
    /\ batches = 0

\* mutant: the export does not need a connection
CanExport_Always(api) == TRUE

\* line 86: redcap_api.export_metadata exists iff redcap_api is not None
CanExport(api) == api = "api"

\* main, lines 79-84: connect_server returns the api, or raises; the handler
\* prints and main goes on with redcap_api = None.
Connect ==
    /\ pc = "connect"
    /\ \E ok \in BOOLEAN :
        /\ redcap_api' = IF ok THEN "api" ELSE "none"
        /\ printed' = IF ok THEN <<>> ELSE <<"e.message">>
    /\ pc' = "metadata"
    /\ UNCHANGED <<tracker, status, comments, args, label_i, raisedIn, scraped_issues,
                   i, j, locals, closed_issues, commented_issues, history, batches>>

\* main, lines 81-84: connect_server raises an exception that has no attribute
\* `message`, so the handler's print raises in its turn and leaves main.
ConnectRaises ==
    /\ pc = "connect"
    /\ Raise(pc)
    /\ printed' = <<>>
    /\ UNCHANGED <<tracker, status, comments, args, redcap_api, label_i,
                   scraped_issues, i, j, locals, closed_issues, commented_issues,
                   history, batches>>

\* main, lines 86-101: export_metadata on the api; on None the attribute access
\* raises.
Metadata ==
    /\ pc = "metadata"
    /\ IF CanExport(redcap_api)
         THEN pc' = AfterBatch(0) /\ UNCHANGED raisedIn
         ELSE Raise("metadata")
    /\ printed' = <<>>
    /\ UNCHANGED <<tracker, status, comments, args, redcap_api, label_i,
                   scraped_issues, i, j, locals, closed_issues, commented_issues,
                   history, batches>>

\* main line 104 and run_batch lines 27-32: the next label's batch begins and
\* its tickets are scraped.  What the body of a ticket holds is settled when the
\* ticket is read for the first time.
Scrape ==
    /\ pc = "batch"
    /\ label_i' = label_i + 1
    /\ batches' = batches + 1
    /\ \E read \in [FirstRead(labels[label_i + 1]) -> 0..MaxCmds] :
        ticketCmds' = [t \in Tickets |-> IF t \in DOMAIN read THEN read[t] ELSE ticketCmds[t]]
    /\ parsed' = parsed \cup FirstRead(labels[label_i + 1])
    /\ scraped_issues' = scrape_matching_issues(labels[label_i + 1], ticketCmds')
    /\ pc' = "verify"
    /\ i' = 0
    /\ j' = 0
    /\ unlock_success' = "unset"
    /\ lock_success' = "unset"
    /\ closed_issues' = <<>>
    /\ commented_issues' = <<>>
    /\ printed' = <<>>
    /\ unlocks' = ZeroCounts
    /\ reruns' = ZeroCounts
    /\ relocks' = ZeroCounts
    /\ updates' = [t \in Tickets |-> 0]
    /\ threeOk' = TRUE
    /\ verified' = "pending"
    /\ UNCHANGED <<ticketLabel, status, comments, args, redcap_api, raisedIn>>

\* run_batch lines 34-39
Verify ==
    /\ pc = "verify"
    /\ \E ok \in BOOLEAN :
        /\ verified' = IF ok THEN "passed" ELSE "failed"
        /\ IF VerifyGate(ok)
             THEN /\ pc' = AfterIssue(scraped_issues, 0)
                  /\ printed' = <<>>
             ELSE /\ pc' = AfterAbort(label_i)
                  /\ printed' = <<"Aborting...">>
    /\ UNCHANGED <<tracker, status, comments, args, redcap_api, label_i, raisedIn,
                   scraped_issues, i, j, locals, closed_issues, commented_issues,
                   unlocks, reruns, relocks, updates, threeOk, batches>>

\* run_batch lines 27-36: the tracker query or the verification raises.
ScrapeRaises ==
    /\ pc \in {"batch", "verify"}
    /\ Raise(pc)
    /\ printed' = <<>>
    /\ UNCHANGED <<tracker, status, comments, args, redcap_api, label_i,
                   scraped_issues, i, j, locals, closed_issues, commented_issues,
                   history, batches>>

\* An issue the loop has left: update() of an issue reads the results of its own
\* commands, and nothing reads them after it, so the model drops them.
LeftBehind(issue) ==
    [issue EXCEPT !.commands = [c \in DOMAIN @ |-> [@[c] EXCEPT !.success = "dropped"]]]

\* run_batch lines 40-45: the next scraped issue is entered.
Issue ==
    /\ pc = "issue"
    /\ i' = i + 1
    /\ scraped_issues' =
          IF i = 0 THEN scraped_issues
          ELSE [scraped_issues EXCEPT ![i] = LeftBehind(@)]
    /\ j' = 0
    /\ printed' = IF verbose THEN <<"issue text">> ELSE <<>>
    /\ pc' = AfterCommand(scraped_issues, i + 1, 0)
    /\ threeOk' = TRUE
    /\ UNCHANGED <<tracker, status, comments, args, redcap_api, label_i, raisedIn,
                   locals, closed_issues, commented_issues, unlocks, reruns, relocks,
                   updates, verified, batches>>

Number == scraped_issues[i].number

\* the position after `phase` of command k of the current issue
Goto(phase, ok, k) ==
    IF PhaseAfter(phase, ok) = "next"
      THEN AfterCommand(scraped_issues, i, k)
      ELSE PhaseAfter(phase, ok)

Bump(count, t, k) == [count EXCEPT ![t][k] = @ + 1]

\* run_batch lines 45-52: the next command is taken, its two locking commands
\* are built and unlock_command.test() returns.
Unlock ==
    /\ pc = "unlock"
    /\ j' = j + 1
    /\ \E ok \in BOOLEAN :
        /\ unlock_success' = Outcome(ok)
        /\ pc' = Goto("unlock", ok, j + 1)
    /\ lock_success' = "unset"
    /\ unlocks' = Bump(unlocks, Number, j + 1)
    /\ printed' = <<>>
    /\ UNCHANGED <<tracker, status, comments, args, redcap_api, label_i, raisedIn,
                   scraped_issues, i, closed_issues, commented_issues, reruns,
                   relocks, updates, threeOk, verified, batches>>

\* all three phases of command k of the current issue succeeded
ThreePhasesOk(issue, k, unlocked, locked) ==
    /\ unlocked = "success"
    /\ issue.commands[k].success = "success"
    /\ locked = "success"

\* a command is finished when control leaves its last phase
Finished(phase, ok, issue, k, unlocked, locked) ==
    IF PhaseAfter(phase, ok) = "next"
      THEN threeOk /\ ThreePhasesOk(issue, k, unlocked, locked)
      ELSE threeOk

\* run_batch line 53: command.test() returns.
Rerun ==
    /\ pc = "rerun"
    /\ \E ok \in BOOLEAN :
        /\ scraped_issues' = [scraped_issues EXCEPT ![i] = RecordRerun(@, j, ok)]
        /\ pc' = Goto("rerun", ok, j)
        /\ threeOk' = Finished("rerun", ok, scraped_issues'[i], j, unlock_success,
                                lock_success)
    /\ reruns' = Bump(reruns, Number, j)
    /\ printed' = <<>>
    /\ UNCHANGED <<tracker, status, comments, args, redcap_api, label_i, raisedIn,
                   i, j, locals, closed_issues, commented_issues, unlocks, relocks,
                   updates, verified, batches>>

\* run_batch lines 54-56: lock_command.test() returns and a failure is printed.
Relock ==
    /\ pc = "relock"
    /\ \E ok \in BOOLEAN :
        /\ lock_success' = Outcome(ok)
        /\ printed' = RelockReport(ok)
        /\ pc' = Goto("relock", ok, j)
        /\ threeOk' = Finished("relock", ok, scraped_issues[i], j, unlock_success,
                                lock_success')
    /\ relocks' = Bump(relocks, Number, j)
    /\ UNCHANGED <<tracker, status, comments, args, redcap_api, label_i, raisedIn,
                   scraped_issues, i, j, unlock_success, closed_issues,
                   commented_issues, unlocks, reruns, updates, verified, batches>>

\* run_batch lines 52-54: one of the three test() calls raises.  The call was
\* made, nothing after it in run_batch runs.
PhaseRaises ==
    /\ pc \in {"unlock", "rerun", "relock"}
    /\ Raise(pc)
    /\ j' = IF pc = "unlock" THEN j + 1 ELSE j
    /\ unlocks' = IF pc = "unlock" THEN Bump(unlocks, Number, j + 1) ELSE unlocks
    /\ reruns' = IF pc = "rerun" THEN Bump(reruns, Number, j) ELSE reruns
    /\ relocks' = IF pc = "relock" THEN Bump(relocks, Number, j) ELSE relocks
    /\ unlock_success' = IF pc = "unlock" THEN "unset" ELSE unlock_success
    /\ lock_success' = IF pc = "unlock" THEN "unset" ELSE lock_success
    /\ printed' = <<>>
    /\ UNCHANGED <<tracker, status, comments, args, redcap_api, label_i,
                   scraped_issues, i, closed_issues, commented_issues, updates,
                   threeOk, verified, batches>>

\* scraped_issue.update(): the issue is judged, the comment is posted and a
\* resolved issue is closed.
update(issue) == [issue EXCEPT !.resolved = Resolves(get_commands(issue))]

\* run_batch lines 58-62: update() returns and the ticket is counted.
Update ==
    /\ pc = "update"
    /\ scraped_issues' = [scraped_issues EXCEPT ![i] = update(@)]
    /\ comments' = [comments EXCEPT ![Number] = @ + 1]
    /\ status' = [status EXCEPT ![Number] =
                    IF scraped_issues'[i].resolved THEN "closed" ELSE @]
    /\ updates' = [updates EXCEPT ![Number] = @ + 1]
    /\ IF CountedClosed(scraped_issues'[i])
         THEN /\ closed_issues' = Append(closed_issues, Number)
              /\ UNCHANGED commented_issues
         ELSE /\ commented_issues' = Append(commented_issues, Number)
              /\ UNCHANGED closed_issues
    /\ pc' = AfterIssue(scraped_issues, i)
    /\ printed' = <<>>
    /\ UNCHANGED <<tracker, args, redcap_api, label_i, raisedIn, i, j, locals,
                   unlocks, reruns, relocks, threeOk, verified, batches>>

\* run_batch line 58: update() raises, while it posts the comment or, the
\* comment posted, while it closes the resolved issue.
UpdateRaises ==
    /\ pc = "update"
    /\ Raise(pc)
    /\ scraped_issues' = [scraped_issues EXCEPT ![i] = update(@)]
    /\ updates' = [updates EXCEPT ![Number] = @ + 1]
    /\ \E posted \in BOOLEAN :
        /\ posted => scraped_issues'[i].resolved
        /\ comments' = [comments EXCEPT ![Number] = IF posted THEN @ + 1 ELSE @]
    /\ printed' = <<>>
    /\ UNCHANGED <<tracker, status, args, redcap_api, label_i, i, j, locals,
                   closed_issues, commented_issues, unlocks, reruns, relocks,
                   threeOk, verified, batches>>

\* run_batch lines 64-66: the summary is printed in verbose mode, and
\* run_batch returns to main's loop.
Summary ==
    /\ pc = "summary"
    /\ printed' = IF verbose THEN <<"Closed", "Commented">> ELSE <<>>
    /\ pc' = AfterBatch(label_i)
    /\ UNCHANGED <<tracker, status, comments, args, redcap_api, label_i, raisedIn,
                   scraped_issues, i, j, locals, closed_issues, commented_issues,
                   history, batches>>

Next ==
    \/ Connect
    \/ ConnectRaises
    \/ Metadata
    \/ Scrape
    \/ Verify
    \/ ScrapeRaises
    \/ Issue
    \/ Unlock
    \/ Rerun
    \/ Relock
    \/ PhaseRaises
    \/ Update
    \/ UpdateRaises
    \/ Summary

Spec == Init /\ [][Next]_vars

\* The steps of a run in which every call returns: no collaborator raises past
\* lines 79-84.
NextReturning ==
    \/ Connect
    \/ Metadata
    \/ Scrape
    \/ Verify
    \/ Issue
    \/ Unlock
    \/ Rerun
    \/ Relock
    \/ Update
    \/ Summary

\* main and run_batch are one sequential thread: when the call it is at returns,
\* the interpreter takes the next step.
SpecReturning == Init /\ [][NextReturning]_vars /\ WF_vars(NextReturning)

\* ------------------------------------------------------------- claims
Range(seq) == {seq[k] : k \in 1..Len(seq)}

Scraped == 1..Len(scraped_issues)

CommandsOf(n) == 1..Len(get_commands(scraped_issues[n]))

\* update() of scraped issue n was called in this batch and returned
UpdateReturned(n) ==
    /\ updates[scraped_issues[n].number] = 1
    /\ ~(raisedIn = "update" /\ n = i)

\* command c of scraped issue n is the one run_batch is at
Current(n, c) == n = i /\ c = j

AllRerunsOk(n) ==
    \A c \in CommandsOf(n) : get_commands(scraped_issues[n])[c].success = "success"

C2_RelockOncePerCommand ==
    /\ \A n \in Scraped : \A c \in CommandsOf(n) :
        LET t == scraped_issues[n].number IN
        /\ relocks[t][c] <= 1
        /\ relocks[t][c] = 1 => reruns[t][c] = 1
        /\ ( /\ reruns[t][c] = 1
             /\ ~(Current(n, c) /\ (pc = "relock" \/ raisedIn = "rerun")) )
           => relocks[t][c] = 1
    /\ (pc = "summary" /\ verified = "passed") =>
          \A n \in Scraped : \A c \in CommandsOf(n) :
              relocks[scraped_issues[n].number][c] = 1

\* the relock of a command was attempted after its unlock and its re-run both
\* reported failure
C2_Witness ==
    /\ i \in Scraped
    /\ j \in CommandsOf(i)
    /\ unlock_success = "failure"
    /\ get_commands(scraped_issues[i])[j].success = "failure"
    /\ relocks[Number][j] = 1
    /\ raisedIn = "none"

\* C3, as claimed: when the process stops, every command whose unlock was
\* issued and returned had its relock attempted.
C3_RelockOnEveryExit ==
    pc \in {"exit", "crashed"} =>
        \A n \in Scraped : \A c \in CommandsOf(n) :
            LET t == scraped_issues[n].number IN
            (unlocks[t][c] = 1 /\ ~(Current(n, c) /\ raisedIn = "unlock"))
                => relocks[t][c] = 1

NoRecordStoreOps(t) ==
    \A c \in CmdIdx : unlocks[t][c] = 0 /\ reruns[t][c] = 0 /\ relocks[t][c] = 0

\* C4: once the verification of a batch has failed, no step of that batch
\* unlocks, re-runs or relocks anything, and none comments on or closes a ticket.
C4_FailClosed ==
    [][verified' = "failed" =>
          /\ status' = status
          /\ comments' = comments
          /\ \A t \in Tickets : NoRecordStoreOps(t)' /\ updates'[t] = 0
          /\ closed_issues' = <<>>
          /\ commented_issues' = <<>>]_vars

\* a batch of two tickets, one with commands, was refused by the verification
C4_Witness ==
    /\ verified = "failed"
    /\ Len(scraped_issues) = 2
    /\ \E n \in Scraped : CommandsOf(n) # {}
    /\ printed = <<"Aborting...">>

\* C5: per command the phases are attempted in the order unlock, re-run,
\* relock, each at most once: no re-run without the unlock having returned, no
\* relock without the re-run having returned.
C5_PhaseOrder ==
    \A n \in Scraped : \A c \in CmdIdx :
        LET t == scraped_issues[n].number IN
        /\ unlocks[t][c] <= 1
        /\ relocks[t][c] <= reruns[t][c]
        /\ reruns[t][c] <= unlocks[t][c]
        /\ (reruns[t][c] = 1 /\ Current(n, c)) => raisedIn # "unlock"
        /\ (relocks[t][c] = 1 /\ Current(n, c)) => raisedIn # "rerun"
        /\ (Current(n, c) /\ pc = "rerun") => (unlocks[t][c] = 1 /\ reruns[t][c] = 0)
        /\ (Current(n, c) /\ pc = "relock") => (reruns[t][c] = 1 /\ relocks[t][c] = 0)

\* the second command of a ticket has gone through its three phases
C5_Witness ==
    /\ i \in Scraped
    /\ j = 2
    /\ unlocks[Number][2] = 1
    /\ reruns[Number][2] = 1
    /\ relocks[Number][2] = 1

\* command c of scraped issue n is between its unlock and its relock attempt
Open(n, c) ==
    LET t == scraped_issues[n].number IN unlocks[t][c] >= 1 /\ relocks[t][c] = 0

PairOf(n, c) ==
    <<get_commands(scraped_issues[n])[c].study_id, get_commands(scraped_issues[n])[c].form>>

\* C6: at every moment at most one command, the current one, is between its
\* unlock and its relock attempt, so at most one (study_id, form) pair is; when a
\* command is about to begin, every command begun before it had its three phases.
C6_NoInterleaving ==
    \A n \in Scraped : \A c \in CommandsOf(n) :
        LET t == scraped_issues[n].number IN
        /\ Open(n, c) =>
            /\ Current(n, c)
            /\ pc \in {"rerun", "relock", "crashed"}
            /\ \A m \in Scraped : \A d \in CommandsOf(m) :
                  Open(m, d) => (m = n /\ d = c /\ PairOf(m, d) = PairOf(n, c))
        /\ (unlocks[t][c] = 1 /\ ~Current(n, c))
              => (reruns[t][c] = 1 /\ relocks[t][c] = 1)

\* the second ticket's command is between unlock and relock, after the first
\* ticket's command on the same (study_id, form) pair went through
C6_Witness ==
    /\ i = 2
    /\ i \in Scraped
    /\ Open(2, 1)
    /\ relocks[scraped_issues[1].number][1] = 1
    /\ PairOf(1, 1) = PairOf(2, 1)

AllPhasesAttempted(n) ==
    \A c \in CommandsOf(n) :
        LET t == scraped_issues[n].number IN
        unlocks[t][c] = 1 /\ reruns[t][c] = 1 /\ relocks[t][c] = 1

\* C7: update() is called at most once per scraped ticket and only after all
\* of the ticket's commands went through their phases; a ticket whose update
\* returned is closed iff resolved, is in closed_issues iff resolved and in
\* commented_issues otherwise, once; when the loop is left every scraped
\* ticket was updated.
C7_UpdateOncePerTicket ==
    /\ \A t \in Tickets : updates[t] <= 1 /\ comments[t] <= batches
    /\ \A t \in Tickets : updates[t] = 1 => \E n \in Scraped : scraped_issues[n].number = t
    /\ \A n \in Scraped :
        LET t == scraped_issues[n].number IN
        /\ updates[t] = 1 => AllPhasesAttempted(n)
        /\ UpdateReturned(n) =>
            /\ status[t] = "closed" <=> scraped_issues[n].resolved
            /\ t \in Range(closed_issues) <=> scraped_issues[n].resolved
            /\ t \in Range(commented_issues) <=> ~scraped_issues[n].resolved
        /\ updates[t] = 0 => (status[t] = "open" /\ ~scraped_issues[n].resolved)
    /\ Len(closed_issues) = Cardinality(Range(closed_issues))
    /\ Len(commented_issues) = Cardinality(Range(commented_issues))
    /\ Range(closed_issues) \cap Range(commented_issues) = {}
    /\ (pc = "summary" /\ verified = "passed") => \A n \in Scraped : UpdateReturned(n)

\* a batch of two tickets ended with one closed and one commented
C7_Witness ==
    /\ pc = "summary"
    /\ Len(scraped_issues) = 2
    /\ Len(closed_issues) = 1
    /\ Len(commented_issues) = 1
    /\ \A n \in Scraped : CommandsOf(n) # {}

\* C8, as claimed: when the processing of a ticket fails, in a phase or in its
\* update, the tickets after it are still processed: once the process has
\* stopped, their commands were executed and their update was attempted.
C8_LaterTicketsProcessed ==
    (pc \in {"exit", "crashed"} /\ verified = "passed") =>
        \A n \in Scraped :
            n > i => (updates[scraped_issues[n].number] = 1 /\ AllPhasesAttempted(n))

\* C9: a scraped ticket without commands is not resolved, stays open, is never
\* in closed_issues, sees no record-store operation, and is in commented_issues
\* once its update has returned.
C9_NoCommandsNeverResolved ==
    /\ \A t \in Tickets : ticketCmds[t] = 0 => status[t] = "open"
    /\ \A n \in Scraped :
        LET t == scraped_issues[n].number IN
        CommandsOf(n) = {} =>
            /\ ~scraped_issues[n].resolved
            /\ t \notin Range(closed_issues)
            /\ NoRecordStoreOps(t)
            /\ UpdateReturned(n) => t \in Range(commented_issues)

\* a ticket without commands was updated and counted as commented
C9_Witness ==
    /\ i \in Scraped
    /\ CommandsOf(i) = {}
    /\ UpdateReturned(i)
    /\ Number \in Range(commented_issues)
    /\ comments[Number] = 1

\* C10: a closed ticket is not scraped again and sees no further mutation: no
\* step adds an unlock, re-run, relock or update() for it, comments on it or
\* reopens it.
C10_ClosedNotReprocessed ==
    [][\A t \in Tickets :
          status[t] = "closed" =>
              /\ status'[t] = "closed"
              /\ comments'[t] = comments[t]
              /\ updates'[t] <= updates[t]
              /\ \A c \in CmdIdx :
                  /\ unlocks'[t][c] <= unlocks[t][c]
                  /\ reruns'[t][c] <= reruns[t][c]
                  /\ relocks'[t][c] <= relocks[t][c]
              /\ (pc = "batch" /\ pc' = "verify") =>
                    \A n \in 1..Len(scraped_issues') : scraped_issues'[n].number # t]_vars

\* the batch of a label was run again after its first run closed a ticket, and
\* the second run scraped only the ticket the first run left open
C10_Witness ==
    /\ label_i = 2
    /\ labels[1] = labels[2]
    /\ pc = "verify"
    /\ \E t \in Tickets : status[t] = "closed" /\ ticketLabel[t] = labels[2]
    /\ Len(scraped_issues) = 1

\* run_batch has returned from a batch that passed verification: the last step
\* was the one of lines 64-66
BatchReturned ==
    /\ pc \in {"batch", "exit"}
    /\ verified = "passed"

\* the current issue was entered by the last step (lines 40-43)
IssueEntered ==
    /\ i \in Scraped
    /\ j = 0
    /\ pc \in {"unlock", "update"}
    /\ updates[Number] = 0

\* C11, as claimed: without --verbose run_batch prints the summary of closed
\* and commented tickets when it returns and never the text of an issue; with
\* --verbose it prints the text of every issue it enters.
C11_SummaryWithoutVerbose ==
    /\ (~verbose /\ BatchReturned) => printed = <<"Closed", "Commented">>
    /\ ~verbose => "issue text" \notin Range(printed)
    /\ (verbose /\ IssueEntered) => printed = <<"issue text">>

\* The text update() posts for an issue.  update() is called without arguments
\* (line 58) and unlock_command and lock_command are locals of the inner loop
\* that are never handed to the issue (lines 46-56), so the text is drawn from
\* the issue's own commands: per command, in the order of get_commands(), the
\* command and the result its test() left on it.
CommentText(issue) ==
    [c \in 1..Len(get_commands(issue)) |->
        [study_id |-> get_commands(issue)[c].study_id,
         form |-> get_commands(issue)[c].form,
         command |-> get_commands(issue)[c].success]]

\* C12, as claimed: the comment posted for a ticket reports, for each of its
\* commands in extraction order, the outcome of the unlock, of the re-run and
\* of the relock.
C12_CommentReportsThreePhases ==
    (i \in Scraped /\ UpdateReturned(i)) =>
        LET text == CommentText(scraped_issues[i]) IN
        /\ Len(text) = Len(get_commands(scraped_issues[i]))
        /\ \A c \in CommandsOf(i) :
            /\ text[c].form = Forms[c]
            /\ {"unlock", "command", "relock"} \subseteq DOMAIN text[c]

\* C13: a step prints the "Errors relocking" report iff it is a returning
\* lock_command.test() whose success is false, whatever verbose is and whatever
\* the unlock and the re-run of the command gave.
C13_RelockReportIffFailed ==
    [][/\ ("Errors relocking" \in Range(printed')) <=>
              (pc = "relock" /\ pc' # "crashed" /\ lock_success' = "failure")
       /\ (pc = "relock" /\ pc' # "crashed") =>
              /\ lock_success' \in {"success", "failure"}
              /\ relocks'[Number][j] = relocks[Number][j] + 1]_vars

\* a failed relock was reported in a non-verbose run, after the unlock and the
\* re-run of the command had succeeded
C13_Witness ==
    /\ printed = <<"Errors relocking">>
    /\ ~verbose
    /\ lock_success = "failure"
    /\ unlock_success = "success"
    /\ get_commands(scraped_issues[i])[j].success = "success"

\* C14, as claimed: no failure of a phase leaves run_batch as an exception;
\* each attempted phase of the command run_batch is at has left a result value
\* (success or failure) behind.
C14_PhaseFailuresAreValues ==
    /\ raisedIn \notin {"unlock", "rerun", "relock"}
    /\ (i \in Scraped /\ j \in CommandsOf(i)) =>
        /\ unlocks[Number][j] = 1 => unlock_success \in {"success", "failure"}
        /\ reruns[Number][j] = 1 =>
              get_commands(scraped_issues[i])[j].success \in {"success", "failure"}
        /\ relocks[Number][j] = 1 => lock_success \in {"success", "failure"}

\* command c of scraped issue n names the subject and the form it was scraped
\* with
SameCommand(n, c) ==
    LET command == get_commands(scraped_issues[n])[c] IN
    /\ command.study_id = StudyOf(scraped_issues[n].number)
    /\ command.form = Forms[c]

\* command.test() of command c of the current issue was called and returned
RerunReturned(c) ==
    /\ reruns[Number][c] = 1
    /\ ~(raisedIn = "rerun" /\ c = j)

InProcessingOrder(seq) ==
    \A a, b \in 1..Len(seq) :
        a < b => \E m, n \in Scraped :
                    /\ m < n
                    /\ scraped_issues[m].number = seq[a]
                    /\ scraped_issues[n].number = seq[b]

\* every scraped number is once in exactly one of the two lists
ClosedOrCommented ==
    /\ Range(closed_issues) \cup Range(commented_issues) =
          {scraped_issues[n].number : n \in Scraped}
    /\ Range(closed_issues) \cap Range(commented_issues) = {}
    /\ Len(closed_issues) + Len(commented_issues) = Len(scraped_issues)
    /\ InProcessingOrder(closed_issues)
    /\ InProcessingOrder(commented_issues)

\* C16: when every phase and every update returns, a batch that passed
\* verification returns from run_batch, and when it has returned every scraped
\* ticket number is once in exactly one of closed_issues and commented_issues,
\* each list in processing order.
C16_BatchTerminates ==
    /\ [](BatchReturned => ClosedOrCommented)
    /\ (verified = "passed") ~> BatchReturned

\* run_batch has returned from a batch of two tickets, one closed and one
\* commented
C16_Witness ==
    /\ BatchReturned
    /\ Len(scraped_issues) = 2
    /\ Len(closed_issues) = 1
    /\ Len(commented_issues) = 1

\* C17: main begins one batch per label, in the order of args.labels, each
\* scraping the tickets of its own label; a batch whose verification fails
\* returns to main's loop, which goes on to the next label if there is one, and
\* main exits only after the batch of the last label.
C17_BatchPerLabelInOrder ==
    [][/\ label_i' \in {label_i, label_i + 1}
       /\ label_i' <= Len(labels)
       /\ batches' = label_i'
       /\ label_i' = label_i + 1 => (pc = "batch" /\ pc' = "verify")
       /\ (pc = "batch" /\ pc' = "verify") =>
              /\ label_i' = label_i + 1
              /\ \A n \in 1..Len(scraped_issues') :
                    ticketLabel[scraped_issues'[n].number] = labels[label_i']
       /\ (pc = "verify" /\ verified' = "failed") =>
              pc' = IF label_i < Len(labels) THEN "batch" ELSE "exit"
       /\ pc' = "batch" => label_i' < Len(labels)
       /\ pc' = "exit" => label_i' = Len(labels)]_vars

\* The second of two batches of the same label unlocked, re-ran, relocked and
\* commented a ticket that holds no comment of the first batch: the first batch
\* left the ticket untouched and main went on, which only a failed verification
\* does.
C17_Witness ==
    /\ label_i = 2
    /\ labels[1] = labels[2]
    /\ verified = "passed"
    /\ \E t \in Tickets :
        /\ ticketLabel[t] = labels[2]
        /\ unlocks[t][1] = 1 /\ reruns[t][1] = 1 /\ relocks[t][1] = 1
        /\ updates[t] = 1
        /\ comments[t] = 1

\* connect_server has raised: main is past line 84 without an api, or has left
\* through the handler
ConnectFailed ==
    /\ pc # "connect"
    /\ redcap_api = "none"

\* C18: when the connection to the record store fails, main ends at line 86 (or
\* in the handler) before its loop: no batch is begun, no ticket is scraped, no
\* phase is run and no ticket is commented or closed.
C18_NoBatchWithoutConnection ==
    ConnectFailed =>
        /\ pc \in {"metadata", "crashed"}
        /\ pc = "crashed" => raisedIn \in {"connect", "metadata"}
        /\ batches = 0
        /\ label_i = 0
        /\ scraped_issues = <<>>
        /\ parsed = {}
        /\ \A t \in Tickets :
            /\ NoRecordStoreOps(t)
            /\ updates[t] = 0
            /\ comments[t] = 0
            /\ status[t] = "open"

\* the handler of line 84 printed, main went on without an api and the export
\* of line 86 raised
C18_Witness ==
    /\ ConnectFailed
    /\ pc = "crashed"
    /\ raisedIn = "metadata"
    /\ \A t \in Tickets : ticketLabel[t] = labels[1]

====
